---------------------------- MODULE Spec2Model ----------------------------
(***************************************************************************)
(* A model of rpm/vendor-theia-ide-deps.py, the script that assembles the  *)
(* source tarballs of the Theia IDE RPM build.                             *)
(*                                                                         *)
(* Spec        the dependency pass (download_dependencies) working on a    *)
(*             file system, with download_file and clone_git_repo.         *)
(* SpecCopr    one call of get_copr_release_number.                        *)
(* SpecUpdate  update_spec_file applied repeatedly to one spec file.       *)
(* SpecMain    one run of the driver (main) from the command line to the   *)
(*             exit status.                                                *)
(*                                                                         *)
(* Scope of the file-system model: a destination of a file descriptor is   *)
(* absent or a regular file, a destination of a git descriptor is absent   *)
(* or a directory; the operating system itself does not fail (no full      *)
(* disk, no permission error).  The network and the git subprocesses fail  *)
(* nondeterministically.                                                   *)
(***************************************************************************)
EXTENDS Integers, Sequences, FiniteSets, TLC

VARIABLES
    \* ---- download_dependencies (lines 185-277) ----
    sources,        \* the parsed JSON list
    idx,            \* position of the for loop (1-based), Len+1 when exhausted
    fs,             \* the file system below output_dir: path -> entry
    success_count,
    skip_count,
    fail_count,
    git_count,
    dpc,            \* "loop" | "done"
    dret,           \* the value download_dependencies returned
    log,            \* history: one entry per descriptor handled
    \* ---- get_copr_release_number (lines 380-454) ----
    cpc,            \* "call" | "returned" ("idle" when not in use)
    cversion,       \* the version argument
    cremote,        \* what the query of dist-git produced
    cresult,        \* what the call did: [raised, value]
    \* ---- update_spec_file (lines 457-529) ----
    uexists,        \* spec_file.exists()
    utext,          \* the content of the spec file
    uargs,          \* version, theia_version, electron_version, release
    ulog,           \* history: one entry per application of the updater
    \* ---- main (lines 532-857) and the handler of lines 860-867 ----
    margs,          \* the parsed command line
    project_root,   \* the local checkout the script sits in
    spec_file,      \* theia-ide.spec beside the script
    mpc,            \* the step the driver is at ("idle" when not in use)
    mversion,       \* the version the run works with
    github,         \* what the tag-listing endpoint answered
    mrelease,       \* <<>> for None, else <<n>>
    gen_main,
    gen_plugins,
    gen_deps,
    workdir,        \* the temporary directory: "none" | "exists" | "removed"
    src_dir,        \* the tree package.json and yarn.lock are read from
    outputs,        \* what the run wrote to the output directory
    plugins_tarball, \* the files packed into the plugins tarball
    plugin_log,     \* history: the downloads of the plugin step
    copied_spec,    \* the spec file as copied to the output directory
    trace,          \* history: the steps taken and what they met
    pending,        \* "none" | "SystemExit" | "Exception" leaving the with block
    exit_code       \* -1 while the process runs

depsVars == <<sources, idx, fs, success_count, skip_count, fail_count,
              git_count, dpc, dret, log>>

coprVars == <<cpc, cversion, cremote, cresult>>

updVars == <<uexists, utext, uargs, ulog>>

mainVars == <<margs, project_root, spec_file, mpc, mversion, github, mrelease,
              gen_main, gen_plugins, gen_deps, workdir, src_dir, outputs,
              plugins_tarball, plugin_log, copied_spec, trace, pending,
              exit_code>>

vars == <<depsVars, coprVars, updVars, mainVars>>

-----------------------------------------------------------------------------
(* Python values *)

None == "<None>"

\* Python truthiness of an optional string (None and '' are falsy).
Truthy(x) == x # None /\ x # ""

\* A Python bool as it is kept in the state, beside None.
Py(b) == IF b THEN "True" ELSE "False"

\* dict.get(key, default)
Get(d, key, default) == IF key \in DOMAIN d THEN d[key] ELSE default

-----------------------------------------------------------------------------
(* Text: a string is a sequence of characters.  The four keywords the regular
   expressions look for are kept as one character each (KT and KE stand for
   the two '%global name' prefixes); " " and "\n" are the whitespace, "1"
   and "2" the digits, "x" any other printable character. *)

KV == "Version:"
KR == "Release:"
KT == "%global theia_version"
KE == "%global electron_version"
NL == "\n"

DIST == "%{?dist}"

Digits == <<"0", "1", "2", "3", "4", "5", "6", "7", "8", "9">>

\* \s, \d, \S and '.' as sets of characters
Space == {" ", NL}
Digit == {Digits[k] : k \in DOMAIN Digits}
Chars == {KV, KR, KT, KE, DIST, "x", "v", "<html"} \cup Space \cup Digit
NotSpace == Chars \ Space
NotNewline == Chars \ {NL}

DigitValue(c) == CHOOSE d \in 0..9 : Digits[d + 1] = c

\* str(n) for an integer n >= 0
RECURSIVE Str(_)
Str(n) == IF n < 10 THEN <<Digits[n + 1]>>
          ELSE Str(n \div 10) \o <<Digits[(n % 10) + 1]>>

RECURSIVE Concat(_)
\* ''.join(parts)
Concat(parts) ==
    IF parts = <<>> THEN <<>> ELSE Head(parts) \o Concat(Tail(parts))

\* '^' under re.MULTILINE: the start of the text or just after a line break.
AtLineStart(text, i) == i = 1 \/ text[i - 1] = NL

\* The last position of the longest run of characters of class that starts
\* at position i (i - 1 when there is none).
RECURSIVE RunEnd(_, _, _)
RunEnd(text, i, class) ==
    IF i <= Len(text) /\ text[i] \in class
    THEN RunEnd(text, i + 1, class)
    ELSE i - 1

\* int(digits)
RECURSIVE ToInt(_)
ToInt(digits) ==
    IF digits = <<>> THEN 0
    ELSE 10 * ToInt(SubSeq(digits, 1, Len(digits) - 1))
         + DigitValue(digits[Len(digits)])

NoMatch == [found |-> FALSE, group |-> <<>>]
Match(group) == [found |-> TRUE, group |-> group]

\* re.search(r'^<keyword>\s+(<class>+)', text, re.MULTILINE) and its
\* group(1): the keyword at a line start, the longest run of whitespace (line
\* breaks included), then the longest run of the class, tried at each position
\* from i on.
RECURSIVE SearchField(_, _, _, _)
SearchField(text, i, keyword, class) ==
    IF i > Len(text) THEN NoMatch
    ELSE LET ws == RunEnd(text, i + 1, Space)
             ge == RunEnd(text, ws + 1, class)
         IN  IF /\ AtLineStart(text, i) /\ text[i] = keyword
                /\ ws >= i + 1 /\ ge >= ws + 1
             THEN Match(SubSeq(text, ws + 1, ge))
             ELSE SearchField(text, i + 1, keyword, class)

-----------------------------------------------------------------------------
(* The file system *)

Contents == {"a", "b"}

\* hashlib.sha256(content).hexdigest(), shortened to the first four digits.
SHA256(content) ==
    CASE content = ""  -> "e3b0"
      [] content = "a" -> "ca97"
      [] content = "b" -> "3e23"

Absent == [kind |-> "absent", data |-> "", git |-> FALSE, head |-> ""]
File(content) == [kind |-> "file", data |-> content, git |-> FALSE, head |-> ""]
\* A directory; git says whether it holds a .git entry, head the commit checked out.
Dir(git, head) == [kind |-> "dir", data |-> "", git |-> git, head |-> head]

Paths == {<<"f1">>, <<"f2">>, <<"g1">>}

\* pathlib's output_dir / part: an empty part adds nothing.
PathJoin(p, part) == IF part = "" THEN p ELSE Append(p, part)

Exists(fsys, p) == fsys[p].kind # "absent"

Unlink(fsys, p) == [fsys EXCEPT ![p] = Absent]

verify_sha256(fsys, filepath, expected_sha256) ==
    SHA256(fsys[filepath].data) = expected_sha256

-----------------------------------------------------------------------------
(* download_file *)

\* What urllib.request.urlopen(url) and response.read() do: the connection
\* fails, the read fails after the destination was opened for writing, or
\* the server sends some content.
NetOutcomes == {"connect_error", "read_error"} \cup Contents

\* Fetch without the unlink of line 123: the mismatching file is left behind.
FetchKeepsMismatch(fsys, dest_path, expected_sha256, net) ==
    IF net = "connect_error"
    THEN [fs |-> fsys, ret |-> FALSE, requests |-> 1]
    ELSE IF net = "read_error"
    THEN [fs |-> fsys, ret |-> FALSE, requests |-> 1]
    ELSE LET written == [fsys EXCEPT ![dest_path] = File(net)]
         IN  IF Truthy(expected_sha256)
                /\ SHA256(net) # expected_sha256
             THEN [fs |-> written, ret |-> FALSE, requests |-> 1]
             ELSE [fs |-> written, ret |-> TRUE, requests |-> 1]

\* Fetch asking the server a second time when the content fails the
\* checksum (the server sends the same content again).
FetchRetriesOnce(fsys, dest_path, expected_sha256, net) ==
    IF net = "connect_error"
    THEN [fs |-> fsys, ret |-> FALSE, requests |-> 1]
    ELSE IF net = "read_error"
    THEN [fs |-> fsys, ret |-> FALSE, requests |-> 1]
    ELSE LET written == [fsys EXCEPT ![dest_path] = File(net)]
         IN  IF Truthy(expected_sha256)
             THEN IF verify_sha256(written, dest_path, expected_sha256)
                  THEN [fs |-> written, ret |-> TRUE, requests |-> 1]
                  ELSE [fs |-> Unlink(written, dest_path), ret |-> FALSE,
                        requests |-> 2]
             ELSE [fs |-> written, ret |-> TRUE, requests |-> 1]

\* Lines 110-132: the request, the write, the verification, the cleanup.
Fetch(fsys, dest_path, expected_sha256, net) ==
    IF net = "connect_error"
    THEN \* urlopen raises; except: the file does not exist
         [fs |-> fsys, ret |-> FALSE, requests |-> 1]
    ELSE IF net = "read_error"
    THEN \* open(dest_path, 'wb') created the file, response.read() raises;
         \* except: dest_path.exists() -> unlink
         LET created == [fsys EXCEPT ![dest_path] = File("")]
         IN  [fs |-> Unlink(created, dest_path), ret |-> FALSE, requests |-> 1]
    ELSE LET written == [fsys EXCEPT ![dest_path] = File(net)]
         IN  IF Truthy(expected_sha256)
             THEN IF verify_sha256(written, dest_path, expected_sha256)
                  THEN [fs |-> written, ret |-> TRUE, requests |-> 1]
                  ELSE [fs |-> Unlink(written, dest_path), ret |-> FALSE,
                        requests |-> 1]
             ELSE [fs |-> written, ret |-> TRUE, requests |-> 1]

\* download_file without the accept-on-existence branch of lines 103-105: an
\* existing file with no checksum is fetched again.
download_fileRefetches(fsys, dest_path, expected_sha256, net) ==
    IF Exists(fsys, dest_path) /\ Truthy(expected_sha256)
       /\ verify_sha256(fsys, dest_path, expected_sha256)
    THEN [fs |-> fsys, ret |-> TRUE, requests |-> 0]
    ELSE Fetch(Unlink(fsys, dest_path), dest_path, expected_sha256, net)

\* download_file(url, dest_path, expected_sha256): the file system it leaves,
\* the value it returns and the number of network requests it made.
download_file(fsys, dest_path, expected_sha256, net) ==
    IF Exists(fsys, dest_path)
    THEN IF Truthy(expected_sha256)
            /\ verify_sha256(fsys, dest_path, expected_sha256)
         THEN [fs |-> fsys, ret |-> TRUE, requests |-> 0]
         ELSE IF ~Truthy(expected_sha256)
         THEN [fs |-> fsys, ret |-> TRUE, requests |-> 0]
         ELSE Fetch(Unlink(fsys, dest_path), dest_path, expected_sha256, net)
    ELSE Fetch(fsys, dest_path, expected_sha256, net)

-----------------------------------------------------------------------------
(* clone_git_repo *)

\* What the three git subprocesses do: git cannot be started, clone fails
\* (leaving nothing or a partial directory), fetch fails, checkout fails, or
\* all three succeed.
GitOutcomes == {"git_missing", "clone_fail", "clone_fail_partial",
                "fetch_fail", "checkout_fail", "ok"}

Rmtree(fsys, p) == [fsys EXCEPT ![p] = Absent]

\* Lines 150-182: the subprocesses and the two except clauses.  ops counts
\* the subprocess.run calls made.
Clone(fsys, commit, dest_path, out) ==
    IF out = "git_missing"
    THEN \* subprocess.run raises FileNotFoundError: except Exception
         [fs |-> fsys, ret |-> FALSE, ops |-> 1]
    ELSE IF out = "clone_fail"
    THEN [fs |-> fsys, ret |-> FALSE, ops |-> 1]
    ELSE IF out = "clone_fail_partial"
    THEN LET partial == [fsys EXCEPT ![dest_path] = Dir(FALSE, "")]
         IN  [fs |-> Rmtree(partial, dest_path), ret |-> FALSE, ops |-> 1]
    ELSE LET cloned == [fsys EXCEPT ![dest_path] = Dir(TRUE, "HEAD")]
         IN  IF out = "fetch_fail"
             THEN [fs |-> Rmtree(cloned, dest_path), ret |-> FALSE, ops |-> 2]
             ELSE IF out = "checkout_fail"
             THEN [fs |-> Rmtree(cloned, dest_path), ret |-> FALSE, ops |-> 3]
             ELSE [fs |-> [fsys EXCEPT ![dest_path] = Dir(TRUE, commit)],
                   ret |-> TRUE, ops |-> 3]

\* clone_git_repo without the already-cloned test of lines 140-142.
clone_git_repoAlways(fsys, url, commit, dest_path, out) ==
    Clone(Rmtree(fsys, dest_path), commit, dest_path, out)

clone_git_repo(fsys, url, commit, dest_path, out) ==
    IF Exists(fsys, dest_path) /\ fsys[dest_path].git
    THEN [fs |-> fsys, ret |-> TRUE, ops |-> 0]
    ELSE IF Exists(fsys, dest_path)
    THEN Clone(Rmtree(fsys, dest_path), commit, dest_path, out)
    ELSE Clone(fsys, commit, dest_path, out)

-----------------------------------------------------------------------------
(* download_dependencies *)

arches == {"x86_64", "aarch64"}

\* The descriptors the JSON list is drawn from: the shapes
\* flatpak-node-generator emits and the malformed ones the loop guards against.
SourcePool == {
    [type |-> "file", url |-> "u1", dest_filename |-> "f1"],
    [type |-> "file", url |-> "u1", dest_filename |-> "f1", sha256 |-> "ca97"],
    [type |-> "file", url |-> "u1", dest_filename |-> "f1", sha256 |-> "",
     only_arches |-> {}],
    [type |-> "file", url |-> "u2", dest_filename |-> "f2", sha256 |-> "3e23",
     only_arches |-> {"arm", "aarch64"}],
    [type |-> "file", url |-> "u2", dest_filename |-> "f2", sha256 |-> "3e23",
     only_arches |-> {"arm"}],
    [type |-> "file", dest_filename |-> "f2"],
    [type |-> "file", url |-> "u1"],
    [type |-> "file", dest_filename |-> "f2", only_arches |-> {"i386"}],
    [type |-> "git", url |-> "r1", commit |-> "c1", dest |-> "g1"],
    [type |-> "git", url |-> "r1", commit |-> "c2", dest |-> "g1"],
    [type |-> "git", url |-> "r1", dest |-> "g1"],
    [type |-> "inline"]
}

MaxSources == 2

SourceLists == UNION {[1..n -> SourcePool] : n \in 0..MaxSources}

\* The directory download_dependencies is pointed at: fresh, or left by an
\* earlier pass.
InitialTrees ==
    {[p \in Paths |-> IF p = <<"f1">> THEN f ELSE IF p = <<"g1">> THEN g ELSE Absent] :
        f \in {Absent, File("a"), File("b")},
        g \in {Absent, Dir(FALSE, ""), Dir(TRUE, "c1")}}

output_dir == <<>>

\* The counters of lines 208-211, as one value.
Counts == [success |-> success_count, skip |-> skip_count,
           fail |-> fail_count, git |-> git_count]

\* One history entry per descriptor the loop has handled: the call made for
\* it (fn = "none" when no call was made), the file system before and after,
\* the value the call returned, the requests or git subprocesses it made, the
\* outcome the network or git produced (None when it was not asked), and the
\* counters after the iteration.
Entry(fn, path, before, after, ret, n, outcome, counts) ==
    [fn |-> fn, path |-> path, before |-> before, after |-> after,
     ret |-> ret, n |-> n, outcome |-> outcome, counts |-> counts]

NoCall(fsys, counts) == Entry("none", <<>>, fsys, fsys, None, 0, None, counts)

\* matching_arches against the first architecture only.
matching_archesFirst(only_arches) == {arch \in {"x86_64"} : arch \in only_arches}

\* Line 241-242: the target architectures the descriptor is restricted to.
matching_arches(only_arches) == {arch \in arches : arch \in only_arches}

\* GitSource counting a clone in git_count only.
GitSourceCountsGitOnly(source, fsys, counts, out) ==
    LET url    == Get(source, "url", None)
        commit == Get(source, "commit", None)
        dest   == Get(source, "dest", None)
    IN  IF ~Truthy(url) \/ ~Truthy(commit) \/ ~Truthy(dest)
        THEN NoCall(fsys, counts)
        ELSE LET dest_path == PathJoin(output_dir, dest)
                 r == clone_git_repo(fsys, url, commit, dest_path, out)
             IN  Entry("clone_git_repo", dest_path, fsys, r.fs, Py(r.ret),
                       r.ops, IF r.ops > 0 THEN out ELSE None,
                       IF r.ret
                       THEN [counts EXCEPT !.git = @ + 1]
                       ELSE [counts EXCEPT !.fail = @ + 1])

\* Lines 217-232: the iteration for a git source, given what git does.
GitSource(source, fsys, counts, out) ==
    LET url    == Get(source, "url", None)
        commit == Get(source, "commit", None)
        dest   == Get(source, "dest", None)
    IN  IF ~Truthy(url) \/ ~Truthy(commit) \/ ~Truthy(dest)
        THEN NoCall(fsys, counts)
        ELSE LET dest_path == PathJoin(output_dir, dest)
                 r == clone_git_repo(fsys, url, commit, dest_path, out)
             IN  Entry("clone_git_repo", dest_path, fsys, r.fs, Py(r.ret),
                       r.ops, IF r.ops > 0 THEN out ELSE None,
                       IF r.ret
                       THEN [counts EXCEPT !.git = @ + 1, !.success = @ + 1]
                       ELSE [counts EXCEPT !.fail = @ + 1])

\* FileSource counting a descriptor without url or dest-filename as failed.
FileSourceCountsMalformed(source, fsys, counts, net) ==
    LET only_arches == Get(source, "only_arches", {})
        url == Get(source, "url", None)
        dest_filename == Get(source, "dest_filename", None)
        dest_subdir == Get(source, "dest", "")
        sha256 == Get(source, "sha256", None)
    IN  IF only_arches # {} /\ matching_arches(only_arches) = {}
        THEN NoCall(fsys, [counts EXCEPT !.skip = @ + 1])
        ELSE IF ~Truthy(url) \/ ~Truthy(dest_filename)
        THEN NoCall(fsys, [counts EXCEPT !.fail = @ + 1])
        ELSE LET dest_path == PathJoin(PathJoin(output_dir, dest_subdir),
                                       dest_filename)
                 r == download_file(fsys, dest_path, sha256, net)
             IN  Entry("download_file", dest_path, fsys, r.fs, Py(r.ret),
                       r.requests, IF r.requests > 0 THEN net ELSE None,
                       IF r.ret
                       THEN [counts EXCEPT !.success = @ + 1]
                       ELSE [counts EXCEPT !.fail = @ + 1])

\* Lines 235-262: the iteration for a file source, given what the network does.
FileSource(source, fsys, counts, net) ==
    LET only_arches == Get(source, "only_arches", {})
        url == Get(source, "url", None)
        dest_filename == Get(source, "dest_filename", None)
        dest_subdir == Get(source, "dest", "")
        sha256 == Get(source, "sha256", None)
    IN  IF only_arches # {} /\ matching_arches(only_arches) = {}
        THEN NoCall(fsys, [counts EXCEPT !.skip = @ + 1])
        ELSE IF ~Truthy(url) \/ ~Truthy(dest_filename)
        THEN NoCall(fsys, counts)
        ELSE LET dest_path == PathJoin(PathJoin(output_dir, dest_subdir),
                                       dest_filename)
                 r == download_file(fsys, dest_path, sha256, net)
             IN  Entry("download_file", dest_path, fsys, r.fs, Py(r.ret),
                       r.requests, IF r.requests > 0 THEN net ELSE None,
                       IF r.ret
                       THEN [counts EXCEPT !.success = @ + 1]
                       ELSE [counts EXCEPT !.fail = @ + 1])

\* Lines 213-262: one iteration of the loop.
Iteration(source, fsys, counts, net, out) ==
    LET source_type == Get(source, "type", None)
    IN  IF source_type = "git" THEN GitSource(source, fsys, counts, out)
        ELSE IF source_type = "file" THEN FileSource(source, fsys, counts, net)
        ELSE NoCall(fsys, counts)

\* The state after the iteration e: the tree, the counters, the next source.
EndIteration(e) ==
    /\ fs' = e.after
    /\ success_count' = e.counts.success
    /\ skip_count' = e.counts.skip
    /\ fail_count' = e.counts.fail
    /\ git_count' = e.counts.git
    /\ log' = Append(log, e)
    /\ idx' = idx + 1
    /\ UNCHANGED <<sources, dpc, dret>>

\* Lines 217-232: a git source.
HandleGit ==
    /\ dpc = "loop" /\ idx <= Len(sources)
    /\ Get(sources[idx], "type", None) = "git"
    /\ \E out \in GitOutcomes :
         EndIteration(GitSource(sources[idx], fs, Counts, out))

\* Lines 235-262: a file source.
HandleFile ==
    /\ dpc = "loop" /\ idx <= Len(sources)
    /\ Get(sources[idx], "type", None) = "file"
    /\ \E net \in NetOutcomes :
         EndIteration(FileSource(sources[idx], fs, Counts, net))

\* A source of any other type falls through both ifs.
HandleOther ==
    /\ dpc = "loop" /\ idx <= Len(sources)
    /\ Get(sources[idx], "type", None) \notin {"git", "file"}
    /\ EndIteration(NoCall(fs, Counts))

\* The result of the pass with the test of fail_count left out.
PassResultIgnoresFailures(fails) == TRUE

\* Lines 271-277: the result of the pass.
PassResult(fails) == IF fails > 0 THEN FALSE ELSE TRUE

ZeroCounts == [success |-> 0, skip |-> 0, fail |-> 0, git |-> 0]

\* The loop from source k on; outs[k] is what the network and git do for
\* source k.
RECURSIVE RunLoop(_, _, _, _, _)
RunLoop(srcs, k, fsys, counts, outs) ==
    IF k > Len(srcs)
    THEN [fs |-> fsys, counts |-> counts]
    ELSE LET e == Iteration(srcs[k], fsys, counts, outs[k].net, outs[k].out)
         IN  RunLoop(srcs, k + 1, e.after, e.counts, outs)

\* download_dependencies(sources_json, output_dir) as one call: the tree it
\* leaves and the value it returns.
download_dependencies(srcs, fsys, outs) ==
    LET end == RunLoop(srcs, 1, fsys, ZeroCounts, outs)
    IN  [fs |-> end.fs, ret |-> PassResult(end.counts.fail),
         counts |-> end.counts]

\* Lines 264-277: the summary and the result.
PassReturn ==
    /\ dpc = "loop" /\ idx > Len(sources)
    /\ dret' = Py(PassResult(fail_count))
    /\ dpc' = "done"
    /\ UNCHANGED <<sources, idx, fs, success_count, skip_count, fail_count,
                   git_count, log>>

-----------------------------------------------------------------------------
(* get_copr_release_number *)

\* The lines the spec file in dist-git is made of.
RemoteLines == {
    <<KV, " ", "1">>,
    <<KV, " ", "1", "2">>,
    <<KV>>,
    <<KV, " ">>,
    <<KV, "1">>,
    <<" ", KV, " ", "1">>,
    <<KR, " ", "2">>,
    <<KR, " ", "1", "2", "x">>,
    <<KR, " ", "x">>,
    <<KR, " ">>,
    <<"x">>,
    <<"<html">>
}

MaxRemoteLines == 3

\* Each line with its line break.
RemoteTexts ==
    UNION {{Concat([k \in 1..n |-> ls[k] \o <<NL>>]) : ls \in [1..n -> RemoteLines]} :
             n \in 0..MaxRemoteLines}

\* What the query produces: through curl (shutil.which found it) or through
\* urllib, a failure (non-zero exit or URLError), a timeout after 10 s,
\* bytes that are not UTF-8, or the text served.
RemoteOutcomes ==
    {[curl |-> c, kind |-> k, text |-> <<>>] :
        c \in BOOLEAN, k \in {"error", "timeout", "decode_error"}} \cup
    {[curl |-> c, kind |-> "text", text |-> t] :
        c \in BOOLEAN, t \in RemoteTexts}

Raised == [raised |-> TRUE, value |-> 0]
Returned(v) == [raised |-> FALSE, value |-> v]

\* Lines 403-424: the text fetched, or an exception.
FetchRemote(remote) ==
    IF remote.kind # "text"
    THEN Raised
    ELSE IF ~remote.curl /\ remote.text # <<>> /\ remote.text[1] = "<html"
    THEN Raised     \* the bot-protection page, seen by the urllib branch only
    ELSE Returned(remote.text)

\* Lines 428-448: the two searches and the choice of the release.
NextRelease(version, content) ==
    LET version_match == SearchField(content, 1, KV, NotSpace)
        release_match == SearchField(content, 1, KR, Digit)
    IN  IF ~version_match.found \/ ~release_match.found
        THEN 1
        ELSE LET prev_version == version_match.group
                 prev_release == ToInt(release_match.group)
             IN  IF prev_version = version THEN prev_release + 1 ELSE 1

\* get_copr_release_number with the except clause of lines 450-454 left out.
get_copr_release_numberNoHandler(version, remote) ==
    LET content == FetchRemote(remote)
    IN  IF content.raised THEN Raised
        ELSE Returned(NextRelease(version, content.value))

\* get_copr_release_number(version): try, except Exception -> 1.
get_copr_release_number(version, remote) ==
    LET content == FetchRemote(remote)
    IN  IF content.raised THEN Returned(1)
        ELSE Returned(NextRelease(version, content.value))

CoprVersions == {<<"1">>, <<"1", "2">>}

NoRemote == [curl |-> FALSE, kind |-> "none", text |-> <<>>]

CoprInit ==
    /\ cpc = "call"
    /\ cversion \in CoprVersions
    /\ cremote = NoRemote
    /\ cresult = Returned(0)

CoprIdle ==
    /\ cpc = "idle"
    /\ cversion = <<>>
    /\ cremote = NoRemote
    /\ cresult = Returned(0)

\* One call of get_copr_release_number(version).
CoprCall ==
    /\ cpc = "call"
    /\ \E remote \in RemoteOutcomes :
         /\ cremote' = remote
         /\ cresult' = get_copr_release_number(cversion, remote)
    /\ cpc' = "returned"
    /\ UNCHANGED <<cversion, depsVars, updVars>>

-----------------------------------------------------------------------------
(* update_spec_file *)

\* re.sub(r'^<keyword>\s+.*$', repl, text, flags=re.MULTILINE) from position
\* i on: at a line start, the keyword, the longest run of whitespace (line
\* breaks included) and the rest of the line that run ends in are replaced.
RECURSIVE SubLine(_, _, _, _)
SubLine(text, i, keyword, repl) ==
    IF i > Len(text) THEN <<>>
    ELSE LET ws  == RunEnd(text, i + 1, Space)
             eol == RunEnd(text, ws + 1, NotNewline)
         IN  IF AtLineStart(text, i) /\ text[i] = keyword /\ ws >= i + 1
             THEN repl \o SubLine(text, eol + 1, keyword, repl)
             ELSE <<text[i]>> \o SubLine(text, i + 1, keyword, repl)

\* The eight spaces of 'Version:        ' and 'Release:        '.
Pad == <<" ", " ", " ", " ", " ", " ", " ", " ">>

\* Lines 476-511: the content computed from the content read.  An optional
\* argument is <<>> when it is None or empty; release is <<>> or <<n>>.
NewContent(content, version, theia_version, electron_version, release) ==
    LET c1 == SubLine(content, 1, KV, <<KV>> \o Pad \o version)
        c2 == IF release # <<>>
              THEN SubLine(c1, 1, KR, <<KR>> \o Pad \o Str(release[1]) \o <<DIST>>)
              ELSE c1
        c3 == IF theia_version # <<>>
              THEN SubLine(c2, 1, KT, <<KT, " ">> \o theia_version)
              ELSE c2
        c4 == IF electron_version # <<>>
              THEN SubLine(c3, 1, KE, <<KE, " ">> \o electron_version)
              ELSE c3
    IN  c4

\* update_spec_file writing whatever it computed and reporting an update.
update_spec_fileAlwaysWrites(exists, text, args) ==
    IF ~exists
    THEN [text |-> text, ret |-> FALSE, wrote |-> FALSE]
    ELSE [text |-> NewContent(text, args.version, args.theia_version,
                              args.electron_version, args.release),
          ret |-> TRUE, wrote |-> TRUE]

\* update_spec_file(spec_file, version, theia_version, electron_version,
\* release): the content it leaves, the value it returns, whether it wrote.
update_spec_file(exists, text, args) ==
    IF ~exists
    THEN [text |-> text, ret |-> FALSE, wrote |-> FALSE]
    ELSE LET original_content == text
             content == NewContent(original_content, args.version,
                                   args.theia_version, args.electron_version,
                                   args.release)
         IN  IF content # original_content
             THEN [text |-> content, ret |-> TRUE, wrote |-> TRUE]
             ELSE [text |-> text, ret |-> FALSE, wrote |-> FALSE]

\* The lines a spec file is drawn from.
SpecLines == {
    <<KV, " ", "1">>,
    <<KV, " ">>,
    <<KV>>,
    <<KR, " ", "1", DIST>>,
    <<KT, " ", "1">>,
    <<KE, " ">>,
    <<"x">>,
    <<>>
}

MaxSpecLines == 3

SpecTexts ==
    UNION {{Concat([k \in 1..n |-> ls[k] \o <<NL>>]) : ls \in [1..n -> SpecLines]} :
             n \in 0..MaxSpecLines}

\* The arguments of the updater: a version, a whitespace-only version, the
\* optional sub-versions and the optional release.
UpdateArgs ==
    [version : {<<"1">>, <<" ">>},
     theia_version : {<<>>, <<"2">>},
     electron_version : {<<>>, <<"2">>},
     release : {<<>>, <<2>>}]

\* How often the updater is applied in a row.
MaxApplications == 2

UpdInit ==
    /\ \/ uexists = TRUE /\ utext \in SpecTexts
       \/ uexists = FALSE /\ utext = <<>>
    /\ uargs \in UpdateArgs
    /\ ulog = <<>>

UpdIdle ==
    /\ uexists = FALSE
    /\ utext = <<>>
    /\ uargs = [version |-> <<>>, theia_version |-> <<>>,
                electron_version |-> <<>>, release |-> <<>>]
    /\ ulog = <<>>

\* One application of update_spec_file with the fixed arguments.
ApplyUpdate ==
    /\ Len(ulog) < MaxApplications
    /\ LET r == update_spec_file(uexists, utext, uargs)
       IN  /\ utext' = r.text
           /\ ulog' = Append(ulog, [before |-> utext, after |-> r.text,
                                    ret |-> r.ret, wrote |-> r.wrote])
    /\ UNCHANGED <<uexists, uargs, depsVars, coprVars>>
-----------------------------------------------------------------------------
(* The driver: main *)

\* str.lstrip(chars): every leading character that is in chars is removed.
RECURSIVE lstrip(_, _)
lstrip(s, chars) ==
    IF s # <<>> /\ Head(s) \in chars THEN lstrip(Tail(s), chars) ELSE s

\* An optional string of the driver is a sequence of characters; <<>> stands
\* for None and for '', which every test of the driver treats alike.
NoString == <<>>

\* The names of the tags the tag-listing endpoint may report first.
TagPool == {<<>>, <<"v">>, <<"1">>, <<"v", "1">>, <<"v", "v", "1">>,
            <<"1", "v">>}

\* The JSON lists the endpoint may send: empty, one tag, a tag object without
\* a name, and two tags.
TagLists ==
    {<<>>, <<[sha |-> "x"]>>,
     <<[name |-> <<"v", "1">>], [name |-> <<"v", "2">>]>>}
    \cup {<<[name |-> t]>> : t \in TagPool}

\* What urlopen and json.loads give: an exception (no network, rate limit,
\* no JSON list) or the list.
GithubOutcomes ==
    {[kind |-> "error", data |-> <<>>]}
    \cup {[kind |-> "json", data |-> d] : d \in TagLists}

NoResponse == [kind |-> "none", data |-> <<>>]

\* Lines 280-298.
get_latest_github_version(response) ==
    IF response.kind # "json"
    THEN NoString                       \* except Exception: return None
    ELSE LET data == response.data
         IN  IF Len(data) > 0
             THEN LET tag == Get(data[1], "name", NoString)
                  IN  IF tag # NoString THEN lstrip(tag, {"v"}) ELSE NoString
             ELSE NoString

\* package.json of a source tree: absent (or not parsable, which every reader
\* of the file treats like absent), or the fields the driver reads:
\* version, the file names of the theiaPlugins URLs, the
\* version of the first @theia/ dependency, of the electron dependency, and
\* the electron dependency of applications/electron/package.json.
NoPackage(kind) ==
    [kind |-> kind, version |-> NoString, theiaPlugins |-> <<>>,
     theia |-> NoString, electron |-> NoString,
     app_kind |-> "absent", app_electron |-> NoString]

PackageFiles == {
    NoPackage("absent"),
    [kind |-> "json", version |-> <<"5">>, theiaPlugins |-> <<"f1">>,
     theia |-> <<"^", "2">>, electron |-> NoString,
     app_kind |-> "json", app_electron |-> <<"~", "2">>],
    [kind |-> "json", version |-> NoString, theiaPlugins |-> <<>>,
     theia |-> NoString, electron |-> <<"2">>,
     app_kind |-> "absent", app_electron |-> NoString]
}

\* flatpak/extension-sources.json of a source tree.
ExtensionFiles == {
    [kind |-> "absent", items |-> <<>>],
    [kind |-> "json",
     items |-> <<[type |-> "file", dest |-> "plugins", url |-> "u2",
                  dest_filename |-> "f2", sha256 |-> "ca97"],
                 [type |-> "file", dest |-> "other", url |-> "u1",
                  dest_filename |-> "f1"],
                 [type |-> "file", dest |-> "plugins", url |-> "u1",
                  dest_filename |-> "f1"]>>],
    [kind |-> "json",
     items |-> <<[type |-> "file", dest |-> "plugins",
                  dest_filename |-> "f2"]>>]
}

\* A source tree: the local checkout or the clone.
Trees == [package_json : PackageFiles, extension_sources : ExtensionFiles]

NoTree == [package_json |-> NoPackage("absent"),
           extension_sources |-> [kind |-> "absent", items |-> <<>>]]

\* Lines 301-311.
get_version_from_local(project) ==
    IF project.package_json.kind = "json"
    THEN project.package_json.version     \* data.get('version')
    ELSE NoString                         \* not there, or except Exception

\* Lines 329-377: (theia_version, electron_version).
get_versions_from_package_json(tree) ==
    LET pkg == tree.package_json
    IN  IF pkg.kind # "json"
        THEN [theia |-> NoString, electron |-> NoString]
        ELSE LET theia_version == lstrip(pkg.theia, {"^", "~"})
                 root == lstrip(pkg.electron, {"^", "~"})
                 electron_version ==
                     IF root = NoString /\ pkg.app_kind = "json"
                     THEN lstrip(pkg.app_electron, {"^", "~"})
                     ELSE root
             IN  [theia |-> theia_version, electron |-> electron_version]

\* Lines 580-597: what to generate, with --only-* ignored when --skip-* is
\* given for the same step.
GenerationSkipWins(a) ==
    IF a.only_main_source \/ a.only_plugins \/ a.only_deps
    THEN [main |-> a.only_main_source /\ ~a.skip_main_source,
          plugins |-> ~a.only_main_source /\ a.only_plugins /\ ~a.skip_plugins,
          deps |-> ~a.only_main_source /\ ~a.only_plugins /\ a.only_deps
                   /\ ~a.skip_deps]
    ELSE [main |-> ~a.skip_main_source, plugins |-> ~a.skip_plugins,
          deps |-> ~a.skip_deps]

\* Lines 580-597: gen_main, gen_plugins, gen_deps.
Generation(a) ==
    IF a.only_main_source
    THEN [main |-> TRUE, plugins |-> FALSE, deps |-> FALSE]
    ELSE IF a.only_plugins
    THEN [main |-> FALSE, plugins |-> TRUE, deps |-> FALSE]
    ELSE IF a.only_deps
    THEN [main |-> FALSE, plugins |-> FALSE, deps |-> TRUE]
    ELSE [main |-> ~a.skip_main_source, plugins |-> ~a.skip_plugins,
          deps |-> ~a.skip_deps]

\* subprocess.run without check=True: a failing command raises nothing.
CalledProcessErrorNever(outcome) == FALSE

\* subprocess.run(..., check=True) raises CalledProcessError when the command
\* exits with a non-zero status.
CalledProcessError(outcome) == outcome = "failed"

\* Lines 676-682: the theiaPlugins downloads from entry k on; a failed
\* download is a warning.
\* attempts lists the download_file calls made and what they returned.
Attempt(name, ret) == [name |-> name, ret |-> ret]

RECURSIVE FetchPlugins(_, _, _, _)
FetchPlugins(names, k, fsys, nets) ==
    IF k > Len(names) THEN [fs |-> fsys, warnings |-> 0, attempts |-> <<>>]
    ELSE LET r == download_file(fsys, <<names[k]>>, None, nets[k])
             rest == FetchPlugins(names, k + 1, r.fs, nets)
         IN  [fs |-> rest.fs,
              warnings |-> rest.warnings + (IF r.ret THEN 0 ELSE 1),
              attempts |-> <<Attempt(names[k], r.ret)>> \o rest.attempts]

\* FetchExtensions with a break after the warning: the first failed
\* download ends the loop.
RECURSIVE FetchExtensionsStopAtFailure(_, _, _, _)
FetchExtensionsStopAtFailure(items, k, fsys, nets) ==
    IF k > Len(items)
    THEN [fs |-> fsys, raised |-> FALSE, warnings |-> 0, attempts |-> <<>>]
    ELSE LET item == items[k]
         IN  IF Get(item, "type", None) = "file"
                /\ Get(item, "dest", None) = "plugins"
             THEN IF "url" \notin DOMAIN item
                     \/ "dest_filename" \notin DOMAIN item
                  THEN [fs |-> fsys, raised |-> TRUE, warnings |-> 0,
                        attempts |-> <<>>]
                  ELSE LET r == download_file(fsys, <<item.dest_filename>>,
                                   Get(item, "sha256", None), nets[k])
                       IN  IF r.ret
                           THEN LET rest == FetchExtensionsStopAtFailure(
                                                items, k + 1, r.fs, nets)
                                IN  [rest EXCEPT !.attempts =
                                       <<Attempt(item.dest_filename, TRUE)>>
                                       \o @]
                           ELSE [fs |-> r.fs, raised |-> FALSE,
                                 warnings |-> 1,
                                 attempts |->
                                   <<Attempt(item.dest_filename, FALSE)>>]
             ELSE FetchExtensionsStopAtFailure(items, k + 1, fsys, nets)

\* Lines 690-697: the built-in extensions from item k on; item['url'] and
\* item['dest-filename'] raise KeyError when the key is missing.
RECURSIVE FetchExtensions(_, _, _, _)
FetchExtensions(items, k, fsys, nets) ==
    IF k > Len(items)
    THEN [fs |-> fsys, raised |-> FALSE, warnings |-> 0, attempts |-> <<>>]
    ELSE LET item == items[k]
         IN  IF Get(item, "type", None) = "file"
                /\ Get(item, "dest", None) = "plugins"
             THEN IF "url" \notin DOMAIN item \/ "dest_filename" \notin DOMAIN item
                  THEN [fs |-> fsys, raised |-> TRUE, warnings |-> 0,
                        attempts |-> <<>>]
                  ELSE LET r == download_file(fsys, <<item.dest_filename>>,
                                              Get(item, "sha256", None), nets[k])
                           rest == FetchExtensions(items, k + 1, r.fs, nets)
                       IN  [fs |-> rest.fs, raised |-> rest.raised,
                            warnings |-> rest.warnings
                                         + (IF r.ret THEN 0 ELSE 1),
                            attempts |-> <<Attempt(item.dest_filename, r.ret)>>
                                         \o rest.attempts]
             ELSE FetchExtensions(items, k + 1, fsys, nets)

\* Lines 667-702 up to the tarball: the plugin directory filled, or an
\* exception (package.json or extension-sources.json cannot be opened or
\* parsed, or a KeyError).
FetchAllPlugins(tree, nets1, nets2) ==
    LET empty == [p \in Paths |-> Absent]
    IN  IF tree.package_json.kind # "json"
        THEN [fs |-> empty, raised |-> TRUE, warnings |-> 0,
              attempts |-> <<>>]
        ELSE LET p == FetchPlugins(tree.package_json.theiaPlugins, 1, empty, nets1)
                 ext == tree.extension_sources
             IN  IF ext.kind = "absent"
                 THEN [fs |-> p.fs, raised |-> FALSE, warnings |-> p.warnings,
                       attempts |-> p.attempts]
                 ELSE IF ext.kind # "json"
                 THEN [fs |-> p.fs, raised |-> TRUE, warnings |-> p.warnings,
                       attempts |-> p.attempts]
                 ELSE LET e == FetchExtensions(ext.items, 1, p.fs, nets2)
                      IN  [fs |-> e.fs, raised |-> e.raised,
                           warnings |-> p.warnings + e.warnings,
                           attempts |-> p.attempts \o e.attempts]

\* What the network does for the downloads of the plugin step.
PluginNets == {"connect_error", "a", "b"}

\* shutil.which and pipx: the generator is on the PATH, pipx is missing, the
\* installation fails, it succeeds but the generator is still not found, it
\* succeeds.
ToolOutcomes == {"present", "no_pipx", "install_failed", "still_missing",
                 "installed"}

\* The sources JSON flatpak-node-generator writes.
ListerOutputs == {
    <<>>,
    <<[type |-> "file", url |-> "u1", dest_filename |-> "f1", sha256 |-> "ca97"]>>,
    <<[type |-> "file", url |-> "u1", dest_filename |-> "f1", sha256 |-> "ca97"],
      [type |-> "git", url |-> "r1", commit |-> "c1", dest |-> "g1"]>>,
    <<[type |-> "file", url |-> "u1"],
      [type |-> "file", url |-> "u2", dest_filename |-> "f2", sha256 |-> "3e23",
       only_arches |-> {"arm"}]>>
}

\* What the network and git do for one descriptor of the pass.
PassOutcomes ==
    {[net |-> n, out |-> "ok"] : n \in {"connect_error", "a", "b"}}
    \cup {[net |-> "a", out |-> "clone_fail"]}

\* theia-ide.spec beside the script.
NoFile == [exists |-> FALSE, text |-> <<>>]

SpecFile(text) == [exists |-> TRUE, text |-> text]

SpecFiles == {
    NoFile,
    SpecFile(<<KV, " ", "1", NL, KR, " ", "1", DIST, NL, KT, " ", "1", NL,
               KE, " ", "1", NL, "x", NL>>)
}

\* theia-ide.spec at the other two places the copy step looks at.
OtherSpecFiles == {NoFile, SpecFile(<<"x", NL>>)}

\* The command lines.
ArgSets ==
    [version_opt : {NoString, <<"3">>},
     version : {NoString, <<"4">>},
     github_latest : BOOLEAN,
     skip_main_source : BOOLEAN, skip_plugins : BOOLEAN, skip_deps : BOOLEAN,
     only_main_source : BOOLEAN, only_plugins : BOOLEAN, only_deps : BOOLEAN,
     copr : BOOLEAN, no_update_spec : BOOLEAN]

\* The local checkouts the script may sit in.
ProjectTrees ==
    {t \in Trees : t.extension_sources.kind = "absent"}

\* What a clone of the tag may hold.
CloneTrees ==
    {t \in Trees : /\ t.package_json.kind = "json"
                   /\ t.package_json.version # NoString
                   /\ t.extension_sources.kind = "json"}

\* dist-git as the driver's call of get_copr_release_number may find it.
MainRemotes(v) ==
    {[curl |-> TRUE, kind |-> "error", text |-> <<>>],
     [curl |-> TRUE, kind |-> "text",
      text |-> <<KV, " ">> \o v \o <<NL, KR, " ", "2", NL>>],
     [curl |-> TRUE, kind |-> "text",
      text |-> <<KV, " ", "9", NL, KR, " ", "2", NL>>]}

\* The entries of a directory, as tar.add packs them.
Listing(fsys) == {p \in Paths : Exists(fsys, p)}

Event(step, outcome) == [step |-> step, outcome |-> outcome]

MainInit ==
    /\ margs \in ArgSets
    /\ project_root \in ProjectTrees
    /\ spec_file \in SpecFiles
    /\ mpc = "version"
    /\ mversion = NoString
    /\ github = NoResponse
    /\ mrelease = <<>>
    /\ gen_main = FALSE /\ gen_plugins = FALSE /\ gen_deps = FALSE
    /\ workdir = "none"
    /\ src_dir = NoTree
    /\ outputs = {}
    /\ plugins_tarball = {}
    /\ plugin_log = <<>>
    /\ copied_spec = NoFile
    /\ trace = <<>>
    /\ pending = "none"
    /\ exit_code = -1

MainIdle ==
    /\ margs = [version_opt |-> NoString, version |-> NoString,
               github_latest |-> FALSE,
               skip_main_source |-> FALSE, skip_plugins |-> FALSE,
               skip_deps |-> FALSE, only_main_source |-> FALSE,
               only_plugins |-> FALSE, only_deps |-> FALSE,
               copr |-> FALSE, no_update_spec |-> FALSE]
    /\ project_root = NoTree
    /\ spec_file = NoFile
    /\ mpc = "idle"
    /\ mversion = NoString
    /\ github = NoResponse
    /\ mrelease = <<>>
    /\ gen_main = FALSE /\ gen_plugins = FALSE /\ gen_deps = FALSE
    /\ workdir = "none"
    /\ src_dir = NoTree
    /\ outputs = {}
    /\ plugins_tarball = {}
    /\ plugin_log = <<>>
    /\ copied_spec = NoFile
    /\ trace = <<>>
    /\ pending = "none"
    /\ exit_code = -1

\* sys.exit(1) before the temporary directory exists.
ExitEarly(event) ==
    /\ trace' = Append(trace, event)
    /\ mpc' = "exited"
    /\ exit_code' = 1

\* Leaving the with block by os._exit: the process ends on the spot and
\* __exit__ of the TemporaryDirectory never runs.
LeaveWithoutExit(event, exception) ==
    /\ trace' = Append(trace, event)
    /\ mpc' = "exited"
    /\ pending' = exception

\* sys.exit(1) or an exception inside the with block: the block is left.
LeaveWith(event, exception) ==
    /\ trace' = Append(trace, event)
    /\ mpc' = "leave"
    /\ pending' = exception

\* The step is over, the next one starts.
Continue(event, next) ==
    /\ trace' = Append(trace, event)
    /\ mpc' = next
    /\ pending' = pending

\* Line 557 with a version on the command line.
ExplicitVersion ==
    /\ mpc = "version"
    /\ LET v == IF margs.version_opt # NoString THEN margs.version_opt
                ELSE margs.version
       IN  /\ v # NoString
           /\ mversion' = v
    /\ trace' = Append(trace, Event("version", "explicit"))
    /\ mpc' = "flags"
    /\ UNCHANGED <<margs, project_root, spec_file, github, mrelease, gen_main,
                   gen_plugins, gen_deps, workdir, src_dir, outputs,
                   plugins_tarball, plugin_log, copied_spec, pending,
                   exit_code>>

\* Lines 559-568: --github-latest.
GithubVersion ==
    /\ mpc = "version"
    /\ margs.version_opt = NoString /\ margs.version = NoString
    /\ margs.github_latest
    /\ \E response \in GithubOutcomes :
         LET v == get_latest_github_version(response)
         IN  /\ github' = response
             /\ mversion' = v
             /\ IF v = NoString
                THEN ExitEarly(Event("version", "github_failed"))
                ELSE /\ trace' = Append(trace, Event("version", "github"))
                     /\ mpc' = "flags"
                     /\ exit_code' = exit_code
    /\ UNCHANGED <<margs, project_root, spec_file, mrelease, gen_main,
                   gen_plugins, gen_deps, workdir, src_dir, outputs,
                   plugins_tarball, plugin_log, copied_spec, pending>>

\* Lines 569-578: the local package.json.
LocalVersion ==
    /\ mpc = "version"
    /\ margs.version_opt = NoString /\ margs.version = NoString
    /\ ~margs.github_latest
    /\ LET v == get_version_from_local(project_root)
       IN  /\ mversion' = v
           /\ IF v = NoString
              THEN ExitEarly(Event("version", "local_failed"))
              ELSE /\ trace' = Append(trace, Event("version", "local"))
                   /\ mpc' = "flags"
                   /\ exit_code' = exit_code
    /\ UNCHANGED <<margs, project_root, spec_file, github, mrelease, gen_main,
                   gen_plugins, gen_deps, workdir, src_dir, outputs,
                   plugins_tarball, plugin_log, copied_spec, pending>>

\* Lines 580-611: the generation flags (and the output directory).
DetermineGeneration ==
    /\ mpc = "flags"
    /\ LET g == Generation(margs)
       IN  /\ gen_main' = g.main
           /\ gen_plugins' = g.plugins
           /\ gen_deps' = g.deps
    /\ mpc' = "release"
    /\ UNCHANGED <<margs, project_root, spec_file, mversion, github, mrelease,
                   workdir, src_dir, outputs, plugins_tarball, plugin_log,
                   copied_spec, trace, pending, exit_code>>

\* Lines 613-625: the release number, in COPR mode.
DetermineRelease ==
    /\ mpc = "release"
    /\ IF margs.copr
       THEN \E remote \in MainRemotes(mversion) :
               /\ mrelease' = <<get_copr_release_number(mversion, remote).value>>
               /\ trace' = Append(trace, Event("release", "resolved"))
       ELSE /\ mrelease' = <<>>
            /\ trace' = trace
    /\ mpc' = "tempdir"
    /\ UNCHANGED <<margs, project_root, spec_file, mversion, github, gen_main,
                   gen_plugins, gen_deps, workdir, src_dir, outputs,
                   plugins_tarball, plugin_log, copied_spec, pending,
                   exit_code>>

\* Line 631: with tempfile.TemporaryDirectory() as workdir.
EnterWorkdir ==
    /\ mpc = "tempdir"
    /\ workdir' = "exists"
    /\ trace' = Append(trace, Event("tempdir", "created"))
    /\ mpc' = "main"
    /\ UNCHANGED <<margs, project_root, spec_file, mversion, github, mrelease,
                   gen_main, gen_plugins, gen_deps, src_dir, outputs,
                   plugins_tarball, plugin_log, copied_spec, pending,
                   exit_code>>

\* Lines 635-661: the clone of the tag and the main source tarball.
MainSource ==
    /\ mpc = "main" /\ gen_main
    /\ \E clone \in {"ok", "failed"}, tree \in CloneTrees :
         IF CalledProcessError(clone)
         THEN /\ LeaveWith(Event("main", IF clone = "ok" THEN "cloned" ELSE "clone_failed"), "SystemExit")
              /\ UNCHANGED <<src_dir, outputs>>
         ELSE /\ Continue(Event("main", IF clone = "ok" THEN "cloned" ELSE "clone_failed"), "plugins")
              /\ src_dir' = tree
              /\ outputs' = outputs \cup {"main_tarball"}
    /\ UNCHANGED <<margs, project_root, spec_file, mversion, github, mrelease,
                   gen_main, gen_plugins, gen_deps, workdir, plugins_tarball, plugin_log,
                   copied_spec, exit_code>>

\* Lines 662-664: the local checkout is the source directory.
LocalSource ==
    /\ mpc = "main" /\ ~gen_main
    /\ src_dir' = project_root
    /\ mpc' = "plugins"
    /\ UNCHANGED <<margs, project_root, spec_file, mversion, github, mrelease,
                   gen_main, gen_plugins, gen_deps, workdir, outputs,
                   plugins_tarball, plugin_log, copied_spec, trace, pending,
                   exit_code>>

\* Lines 667-702: the plugins tarball.
Plugins ==
    /\ mpc = "plugins" /\ gen_plugins
    /\ \E nets1 \in [DOMAIN src_dir.package_json.theiaPlugins -> PluginNets],
          nets2 \in [DOMAIN src_dir.extension_sources.items -> PluginNets] :
         LET r == FetchAllPlugins(src_dir, nets1, nets2)
         IN  IF r.raised
             THEN /\ LeaveWith(Event("plugins", "exception"), "Exception")
                  /\ UNCHANGED <<outputs, plugins_tarball>>
                  /\ plugin_log' = r.attempts
             ELSE /\ Continue(Event("plugins", "done"), "deps")
                  /\ plugin_log' = r.attempts
                  /\ plugins_tarball' = Listing(r.fs)
                  /\ outputs' = outputs \cup {"plugins_tarball"}
    /\ UNCHANGED <<margs, project_root, spec_file, mversion, github, mrelease,
                   gen_main, gen_plugins, gen_deps, workdir, src_dir,
                   copied_spec, exit_code>>

SkipPlugins ==
    /\ mpc = "plugins" /\ ~gen_plugins
    /\ mpc' = "deps"
    /\ UNCHANGED <<margs, project_root, spec_file, mversion, github, mrelease,
                   gen_main, gen_plugins, gen_deps, workdir, src_dir, outputs,
                   plugins_tarball, plugin_log, copied_spec, trace, pending,
                   exit_code>>

\* Lines 709-744: flatpak-node-generator is there or gets installed.
CheckTool ==
    /\ mpc = "deps" /\ gen_deps
    /\ \E tool \in ToolOutcomes :
         IF tool = "present"
         THEN Continue(Event("tool", "available"), "lister")
         ELSE IF tool = "no_pipx"
         THEN LeaveWith(Event("tool", tool), "SystemExit")
         ELSE IF CalledProcessError(IF tool = "install_failed"
                                    THEN "failed" ELSE "ok")
         THEN LeaveWith(Event("tool", tool), "SystemExit")
         ELSE IF tool = "still_missing"
         THEN LeaveWith(Event("tool", tool), "SystemExit")
         ELSE Continue(Event("tool", "available"), "lister")
    /\ UNCHANGED <<margs, project_root, spec_file, mversion, github, mrelease,
                   gen_main, gen_plugins, gen_deps, workdir, src_dir, outputs,
                   plugins_tarball, plugin_log, copied_spec, exit_code>>

\* Lines 747-760: flatpak-node-generator yarn ... -o deps-<version>.json.
RunLister ==
    /\ mpc = "lister"
    /\ \E lister \in {"ok", "failed"} :
         IF CalledProcessError(lister)
         THEN LeaveWith(Event("lister", lister), "SystemExit")
         ELSE Continue(Event("lister", lister), "pass")
    /\ UNCHANGED <<margs, project_root, spec_file, mversion, github, mrelease,
                   gen_main, gen_plugins, gen_deps, workdir, src_dir, outputs,
                   plugins_tarball, plugin_log, copied_spec, exit_code>>

\* Lines 762-780: the dependency pass, the tarball and the JSON file.
DownloadDeps ==
    /\ mpc = "pass"
    /\ \E srcs \in ListerOutputs :
       \E outs \in [1..Len(srcs) -> PassOutcomes] :
         LET r == download_dependencies(srcs, [p \in Paths |-> Absent], outs)
         IN  IF ~r.ret
             THEN /\ LeaveWith(Event("pass", "failed"), "SystemExit")
                  /\ UNCHANGED outputs
             ELSE /\ Continue(Event("pass", "ok"), "update")
                  /\ outputs' = outputs \cup {"deps_tarball", "deps_json"}
    /\ UNCHANGED <<margs, project_root, spec_file, mversion, github, mrelease,
                   gen_main, gen_plugins, gen_deps, workdir, src_dir,
                   plugins_tarball, plugin_log, copied_spec, exit_code>>

SkipDeps ==
    /\ mpc = "deps" /\ ~gen_deps
    /\ mpc' = "update"
    /\ UNCHANGED <<margs, project_root, spec_file, mversion, github, mrelease,
                   gen_main, gen_plugins, gen_deps, workdir, src_dir, outputs,
                   plugins_tarball, plugin_log, copied_spec, trace, pending,
                   exit_code>>

\* Lines 782-792: the spec file beside the script is updated.
UpdateSpec ==
    /\ mpc = "update"
    /\ IF ~margs.no_update_spec /\ spec_file.exists
       THEN LET v == get_versions_from_package_json(src_dir)
                r == update_spec_file(TRUE, spec_file.text,
                        [version |-> mversion, theia_version |-> v.theia,
                         electron_version |-> v.electron, release |-> mrelease])
            IN  /\ spec_file' = SpecFile(r.text)
                /\ trace' = Append(trace, Event("update",
                               IF r.ret THEN "updated" ELSE "unchanged"))
       ELSE /\ spec_file' = spec_file
            /\ trace' = trace
    /\ mpc' = "copy"
    /\ UNCHANGED <<margs, project_root, mversion, github, mrelease, gen_main,
                   gen_plugins, gen_deps, workdir, src_dir, outputs,
                   plugins_tarball, plugin_log, copied_spec, pending,
                   exit_code>>

\* The copy step looking into the source directory first: the spec file of
\* the clone wins over the one beside the script.
CopySpecFromSource ==
    /\ mpc = "copy"
    /\ IF margs.copr
       THEN \E in_src \in (IF gen_main THEN OtherSpecFiles ELSE {NoFile}),
               in_cwd \in OtherSpecFiles, patches \in BOOLEAN :
              LET found == IF in_src.exists THEN in_src
                           ELSE IF spec_file.exists THEN spec_file
                           ELSE in_cwd
              IN  IF found.exists
                  THEN /\ copied_spec' = found
                       /\ outputs' = outputs \cup {"spec"}
                               \cup (IF patches THEN {"patches"} ELSE {})
                       /\ trace' = Append(trace, Event("copy", "copied"))
                  ELSE /\ UNCHANGED <<copied_spec, outputs>>
                       /\ trace' = Append(trace, Event("copy", "not_found"))
       ELSE UNCHANGED <<copied_spec, outputs, trace>>
    /\ mpc' = "leave"
    /\ UNCHANGED <<margs, project_root, spec_file, mversion, github, mrelease,
                   gen_main, gen_plugins, gen_deps, workdir, src_dir,
                   plugins_tarball, plugin_log, pending, exit_code>>

\* Lines 794-831: in COPR mode the first spec file found and the patches
\* beside it are copied to the output directory.  Without a clone the
\* source directory is the checkout the script sits in, and its
\* rpm/theia-ide.spec is the file beside the script.
CopySpec ==
    /\ mpc = "copy"
    /\ IF margs.copr
       THEN \E in_src \in (IF gen_main THEN OtherSpecFiles ELSE {NoFile}),
               in_cwd \in OtherSpecFiles, patches \in BOOLEAN :
              LET found == IF spec_file.exists THEN spec_file
                           ELSE IF in_src.exists THEN in_src
                           ELSE in_cwd
              IN  IF found.exists
                  THEN /\ copied_spec' = found
                       /\ outputs' = outputs \cup {"spec"}
                               \cup (IF patches THEN {"patches"} ELSE {})
                       /\ trace' = Append(trace, Event("copy", "copied"))
                  ELSE /\ UNCHANGED <<copied_spec, outputs>>
                       /\ trace' = Append(trace, Event("copy", "not_found"))
       ELSE UNCHANGED <<copied_spec, outputs, trace>>
    /\ mpc' = "leave"
    /\ UNCHANGED <<margs, project_root, spec_file, mversion, github, mrelease,
                   gen_main, gen_plugins, gen_deps, workdir, src_dir,
                   plugins_tarball, plugin_log, pending, exit_code>>

\* The end of the with block, reached normally, by sys.exit or by an
\* exception: the temporary directory is removed; SystemExit(1) ends the
\* process, an exception reaches the handler of lines 860-867.
LeaveWorkdir ==
    /\ mpc = "leave"
    /\ workdir' = "removed"
    /\ trace' = Append(trace, Event("cleanup", "removed"))
    /\ IF pending = "none"
       THEN mpc' = "summary" /\ exit_code' = exit_code
       ELSE mpc' = "exited" /\ exit_code' = 1
    /\ UNCHANGED <<margs, project_root, spec_file, mversion, github, mrelease,
                   gen_main, gen_plugins, gen_deps, src_dir, outputs,
                   plugins_tarball, plugin_log, copied_spec, pending>>

\* The summary printed inside the with block, before the temporary
\* directory is removed.
SummaryInsideWith ==
    /\ mpc = "leave" /\ pending = "none"
    /\ trace' = Append(trace, Event("summary", "printed"))
    /\ mpc' = "exited"
    /\ exit_code' = 0
    /\ UNCHANGED <<margs, project_root, spec_file, mversion, github, mrelease,
                   gen_main, gen_plugins, gen_deps, workdir, src_dir, outputs,
                   plugins_tarball, plugin_log, copied_spec, pending>>

\* Lines 833-857: the summary; main returns.
Summary ==
    /\ mpc = "summary"
    /\ trace' = Append(trace, Event("summary", "printed"))
    /\ mpc' = "exited"
    /\ exit_code' = 0
    /\ UNCHANGED <<margs, project_root, spec_file, mversion, github, mrelease,
                   gen_main, gen_plugins, gen_deps, workdir, src_dir, outputs,
                   plugins_tarball, plugin_log, copied_spec, pending>>


DepsInit ==
    /\ sources \in SourceLists
    /\ idx = 1
    /\ fs \in InitialTrees
    /\ success_count = 0
    /\ skip_count = 0
    /\ fail_count = 0
    /\ git_count = 0
    /\ dpc = "loop"
    /\ dret = None
    /\ log = <<>>

DepsIdle ==
    /\ sources = <<>>
    /\ idx = 1
    /\ fs = [p \in Paths |-> Absent]
    /\ success_count = 0
    /\ skip_count = 0
    /\ fail_count = 0
    /\ git_count = 0
    /\ dpc = "idle"
    /\ dret = None
    /\ log = <<>>

\* The dependency pass.
Init == DepsInit /\ CoprIdle /\ UpdIdle /\ MainIdle

Next ==
    \/ HandleGit /\ UNCHANGED <<coprVars, updVars, mainVars>>
    \/ HandleFile /\ UNCHANGED <<coprVars, updVars, mainVars>>
    \/ HandleOther /\ UNCHANGED <<coprVars, updVars, mainVars>>
    \/ PassReturn /\ UNCHANGED <<coprVars, updVars, mainVars>>

Spec == Init /\ [][Next]_vars

\* One call of get_copr_release_number.
InitCopr == CoprInit /\ DepsIdle /\ UpdIdle /\ MainIdle

NextCopr == CoprCall /\ UNCHANGED mainVars

SpecCopr == InitCopr /\ [][NextCopr]_vars

\* update_spec_file applied repeatedly to one spec file.
InitUpdate == UpdInit /\ DepsIdle /\ CoprIdle /\ MainIdle

NextUpdate == ApplyUpdate /\ UNCHANGED mainVars

SpecUpdate == InitUpdate /\ [][NextUpdate]_vars

\* One run of the driver.
InitMain == MainInit /\ DepsIdle /\ CoprIdle /\ UpdIdle

NextMain ==
    \/ ExplicitVersion /\ UNCHANGED <<depsVars, coprVars, updVars>>
    \/ GithubVersion /\ UNCHANGED <<depsVars, coprVars, updVars>>
    \/ LocalVersion /\ UNCHANGED <<depsVars, coprVars, updVars>>
    \/ DetermineGeneration /\ UNCHANGED <<depsVars, coprVars, updVars>>
    \/ DetermineRelease /\ UNCHANGED <<depsVars, coprVars, updVars>>
    \/ EnterWorkdir /\ UNCHANGED <<depsVars, coprVars, updVars>>
    \/ MainSource /\ UNCHANGED <<depsVars, coprVars, updVars>>
    \/ LocalSource /\ UNCHANGED <<depsVars, coprVars, updVars>>
    \/ Plugins /\ UNCHANGED <<depsVars, coprVars, updVars>>
    \/ SkipPlugins /\ UNCHANGED <<depsVars, coprVars, updVars>>
    \/ CheckTool /\ UNCHANGED <<depsVars, coprVars, updVars>>
    \/ RunLister /\ UNCHANGED <<depsVars, coprVars, updVars>>
    \/ DownloadDeps /\ UNCHANGED <<depsVars, coprVars, updVars>>
    \/ SkipDeps /\ UNCHANGED <<depsVars, coprVars, updVars>>
    \/ UpdateSpec /\ UNCHANGED <<depsVars, coprVars, updVars>>
    \/ CopySpec /\ UNCHANGED <<depsVars, coprVars, updVars>>
    \/ LeaveWorkdir /\ UNCHANGED <<depsVars, coprVars, updVars>>
    \/ Summary /\ UNCHANGED <<depsVars, coprVars, updVars>>

SpecMain == InitMain /\ [][NextMain]_vars

-----------------------------------------------------------------------------
(* Properties of the dependency pass, checked under Spec *)

\* A checksum is declared when the descriptor carries a non-empty sha256
\* (the test `if expected_sha256` of lines 100 and 118).
Declared(sha) == sha # None /\ sha # ""

ShaOf(k) == Get(sources[k], "sha256", None)

\* The counters before descriptor k was handled.
PrevCounts(k) == IF k = 1 THEN ZeroCounts ELSE log[k - 1].counts

Downloads == {k \in 1..Len(log) : log[k].fn = "download_file"}

Clones == {k \in 1..Len(log) : log[k].fn = "clone_git_repo"}

\* The descriptor restricts itself to architectures other than the two targets.
ArchDisjoint(s) ==
    LET only == Get(s, "only_arches", {})
    IN  only # {} /\ only \cap {"x86_64", "aarch64"} = {}

\* The descriptor asks for a download or a clone: all its fields are there
\* and its architectures, if any, include a target.
ValidSource(s) ==
    \/ /\ Get(s, "type", None) = "git"
       /\ \A f \in {"url", "commit", "dest"} : Get(s, f, "") # ""
    \/ /\ Get(s, "type", None) = "file"
       /\ \A f \in {"url", "dest_filename"} : Get(s, f, "") # ""
       /\ ~ArchDisjoint(s)

Failed(k) == log[k].ret = "False"

\* C1: a failing download or clone never stops the pass.  The descriptors are
\* handled in list order; every valid descriptor handled so far had its
\* download or clone attempted, whatever failed before it; a download whose
\* content arrives and verifies succeeds and leaves the file, also after a
\* failure; the pass returns only after the whole list, and returns False
\* exactly when some attempt failed, which is exactly when fail_count > 0.
C1_FailureNeverStopsPass ==
    /\ Len(log) = idx - 1
    /\ \A k \in 1..Len(log) : ValidSource(sources[k]) => log[k].fn # "none"
    /\ \A k \in Downloads :
         (/\ log[k].outcome \in Contents
          /\ Declared(ShaOf(k)) => SHA256(log[k].outcome) = ShaOf(k))
         => /\ log[k].ret = "True"
            /\ log[k].after[log[k].path] = File(log[k].outcome)
    /\ (fail_count > 0) <=> (\E k \in 1..Len(log) : Failed(k))
    /\ dpc # "done" => dret = None
    /\ dpc = "done" =>
         /\ Len(log) = Len(sources)
         /\ dret \in {"True", "False"}
         /\ dret = "False" <=> fail_count > 0

\* A pass that returned False in which a failed descriptor was followed by
\* one that was fetched from the network and succeeded.
C1_Witness ==
    /\ dpc = "done" /\ dret = "False"
    /\ \E j, k \in 1..Len(log) :
         j < k /\ Failed(j) /\ log[k].ret = "True" /\ log[k].n > 0

\* C6: download_file on a destination that exists makes no request, leaves
\* the file system as it was and returns True when a checksum is declared and
\* the file matches it, or when none is declared; it makes a request only
\* when the destination is absent or mismatches a declared checksum.
C6_ExistingFileNotRefetched ==
    \A k \in Downloads :
      LET e   == log[k]
          old == e.before[e.path]
          sha == ShaOf(k)
      IN  /\ (/\ old.kind # "absent"
              /\ \/ Declared(sha) /\ SHA256(old.data) = sha
                 \/ ~Declared(sha))
             => e.n = 0 /\ e.after = e.before /\ e.ret = "True"
          /\ e.n > 0 =>
               \/ old.kind = "absent"
               \/ Declared(sha) /\ SHA256(old.data) # sha

\* Both cases in one pass: an existing file accepted without a checksum, and
\* an existing file accepted because it matches the declared checksum.
C6_Witness ==
    /\ \E k \in Downloads :
         /\ log[k].before[log[k].path].kind = "file"
         /\ ShaOf(k) = None /\ log[k].n = 0 /\ log[k].ret = "True"
    /\ \E k \in Downloads :
         /\ log[k].before[log[k].path].kind = "file"
         /\ Declared(ShaOf(k)) /\ log[k].n = 0 /\ log[k].ret = "True"

\* C7: when the content downloaded fails the declared checksum, download_file
\* returns False and the destination does not exist; whenever it returns
\* False the destination is absent; whenever it returns True with a declared
\* checksum the destination is a file matching it.
C7_FailedDownloadLeavesNoFile ==
    \A k \in Downloads :
      LET e   == log[k]
          new == e.after[e.path]
          sha == ShaOf(k)
      IN  /\ (/\ e.outcome \in Contents /\ Declared(sha)
              /\ SHA256(e.outcome) # sha)
             => e.ret = "False" /\ new = Absent
          /\ e.ret = "False" => new.kind = "absent"
          /\ (e.ret = "True" /\ Declared(sha))
             => new.kind = "file" /\ SHA256(new.data) = sha

\* A download whose content arrived and failed the declared checksum.
C7_Witness ==
    \E k \in Downloads :
      /\ log[k].outcome \in Contents /\ Declared(ShaOf(k))
      /\ SHA256(log[k].outcome) # ShaOf(k)
      /\ log[k].ret = "False"

\* C8: clone_git_repo on a destination directory that holds a .git entry runs
\* no git subprocess, leaves the file system as it was and returns True, and
\* the descriptor is counted as cloned, whatever commit it pins; a
\* destination directory without a .git entry is deleted and a clone is
\* started: afterwards the destination is the fresh clone at the pinned
\* commit (True) or absent (False).
C8_ExistingCloneKept ==
    \A k \in Clones :
      LET e   == log[k]
          old == e.before[e.path]
          new == e.after[e.path]
          commit == sources[k].commit
      IN  /\ (old.kind = "dir" /\ old.git)
             => /\ e.n = 0 /\ e.after = e.before /\ e.ret = "True"
                /\ e.counts = [PrevCounts(k) EXCEPT !.git = @ + 1,
                                                    !.success = @ + 1]
          /\ (old.kind = "dir" /\ ~old.git)
             => /\ e.n >= 1
                /\ new \in {Absent, Dir(TRUE, commit)}
                /\ e.ret = "True" <=> new = Dir(TRUE, commit)

\* A directory without .git was replaced by a clone, and a later descriptor
\* pinning another commit found that clone and left it alone.
C8_Witness ==
    \E j, k \in Clones :
      /\ j < k
      /\ log[j].before[log[j].path] = Dir(FALSE, "") /\ log[j].ret = "True"
      /\ log[k].before[log[k].path].git
      /\ log[k].before[log[k].path].head # sources[k].commit
      /\ log[k].n = 0 /\ log[k].ret = "True"

\* C9: a file descriptor whose only-arches is non-empty and disjoint from
\* {x86_64, aarch64} adds one to the skipped count, makes no call, leaves the
\* file system as it was and is counted neither as success nor as failure;
\* any other file descriptor leaves the skipped count alone and makes at most
\* one request.
C9_ArchFilter ==
    /\ Len(log) > 0 => log[Len(log)].counts = Counts
    /\ \A k \in 1..Len(log) :
         Get(sources[k], "type", None) = "file" =>
           LET e == log[k]
           IN  IF ArchDisjoint(sources[k])
               THEN /\ e.fn = "none" /\ e.n = 0
                    /\ e.after = e.before
                    /\ e.counts = [PrevCounts(k) EXCEPT !.skip = @ + 1]
               ELSE /\ e.counts.skip = PrevCounts(k).skip
                    /\ e.n <= 1
                    /\ ValidSource(sources[k]) => e.fn = "download_file"

\* One descriptor was skipped for its architectures and one restricted to a
\* set including a target architecture was downloaded, with one request.
C9_Witness ==
    /\ skip_count = 1
    /\ \E k \in 1..Len(log) : ArchDisjoint(sources[k]) /\ log[k].fn = "none"
    /\ \E k \in Downloads :
         /\ Get(sources[k], "only_arches", {}) # {}
         /\ log[k].n = 1 /\ log[k].ret = "True"

\* The content that arrived for descriptor k fails the declared checksum.
FreshMismatch(k) ==
    /\ log[k].outcome \in Contents
    /\ Declared(ShaOf(k))
    /\ SHA256(log[k].outcome) # ShaOf(k)

TransportError(k) == log[k].outcome \in {"connect_error", "read_error"}

CountedFailed(k) ==
    /\ log[k].ret = "False"
    /\ log[k].counts.fail = PrevCounts(k).fail + 1
    /\ log[k].counts.success = PrevCounts(k).success

\* C16 as stated: a download whose content mismatches the declared checksum
\* is requested a second time before the descriptor is counted as failed; a
\* transport error is counted as failed.
C16_MismatchRetriedOnce ==
    \A k \in Downloads :
        /\ FreshMismatch(k) => (log[k].n = 2 /\ CountedFailed(k))
        /\ TransportError(k) => CountedFailed(k)

\* C16, corrected: a download whose content mismatches the declared checksum
\* is counted as failed after its one request, the file removed; a transport
\* error is counted as failed; no descriptor causes more than one request.
\* The only second fetch is that of a file found on disk with a mismatching
\* checksum, which is deleted and requested once.
C16_MismatchFailsWithoutRetry ==
    \A k \in Downloads :
        /\ log[k].n <= 1
        /\ FreshMismatch(k) =>
             /\ log[k].n = 1 /\ CountedFailed(k)
             /\ ~Exists(log[k].after, log[k].path)
        /\ TransportError(k) => (log[k].n = 1 /\ CountedFailed(k))
        /\ (/\ Exists(log[k].before, log[k].path)
            /\ Declared(ShaOf(k))
            /\ SHA256(log[k].before[log[k].path].data) # ShaOf(k))
             => log[k].n = 1

\* Nothing at the destination, the content that arrives fails the checksum:
\* one request, counted as failed.
C16_Witness ==
    \E k \in Downloads :
        /\ FreshMismatch(k)
        /\ ~Exists(log[k].before, log[k].path)
        /\ log[k].n = 1
        /\ CountedFailed(k)

\* The descriptor lacks a field its type needs: url or dest-filename for a
\* file, url, commit or dest for a git repository.
Malformed(s) ==
    \/ /\ Get(s, "type", None) = "file"
       /\ \E f \in {"url", "dest_filename"} : ~Truthy(Get(s, f, None))
    \/ /\ Get(s, "type", None) = "git"
       /\ \E f \in {"url", "commit", "dest"} : ~Truthy(Get(s, f, None))

\* C15: a malformed descriptor is skipped and is no error: nothing is
\* downloaded or cloned for it, the tree is left as it is, neither the failed
\* nor the success count moves, and a pass in which every descriptor that is
\* not malformed went well returns True.
C15_MalformedSkipped ==
    /\ \A k \in 1..Len(log) :
         Malformed(sources[k]) =>
           /\ log[k].fn = "none" /\ log[k].n = 0
           /\ log[k].after = log[k].before
           /\ log[k].counts.fail = PrevCounts(k).fail
           /\ log[k].counts.success = PrevCounts(k).success
           /\ log[k].counts.git = PrevCounts(k).git
    /\ (/\ dpc = "done"
        /\ \A k \in 1..Len(log) : Malformed(sources[k]) \/ ~Failed(k))
         => dret = "True"

\* A pass over a file descriptor without url and a git descriptor without
\* commit returned True.
C15_Witness ==
    /\ dpc = "done" /\ dret = "True"
    /\ Len(sources) = 2
    /\ Get(sources[1], "type", None) = "file" /\ Malformed(sources[1])
    /\ Get(sources[2], "type", None) = "git" /\ Malformed(sources[2])
    /\ fail_count = 0 /\ success_count = 0

\* What handling descriptor k added to a counter.
Added(k, counter) == log[k].counts[counter] - PrevCounts(k)[counter]

\* C17: the counters partition the descriptors handled: each descriptor adds
\* 1 to at most one of success, fail and skip and nothing else to them, so
\* their sum is at most the number of descriptors handled, and equal to it
\* when none of them is malformed or of an unknown type; git_count never
\* exceeds success_count, and success_count - git_count is the number of
\* file descriptors that succeeded.
C17_CountersPartition ==
    /\ Counts = (IF log = <<>> THEN ZeroCounts ELSE log[Len(log)].counts)
    /\ \A k \in 1..Len(log) :
         /\ \A c \in {"success", "fail", "skip", "git"} : Added(k, c) \in {0, 1}
         /\ Added(k, "success") + Added(k, "fail") + Added(k, "skip") <= 1
         /\ Added(k, "git") <= Added(k, "success")
    /\ success_count + fail_count + skip_count <= Len(log)
    /\ (\A k \in 1..Len(log) :
          /\ ~Malformed(sources[k])
          /\ Get(sources[k], "type", None) \in {"git", "file"})
         => success_count + fail_count + skip_count = Len(log)
    /\ git_count <= success_count
    /\ success_count - git_count =
         Cardinality({k \in Downloads : log[k].ret = "True"})
    /\ git_count = Cardinality({k \in Clones : log[k].ret = "True"})

\* A finished pass with one clone and one download, both successful.
C17_Witness ==
    /\ dpc = "done"
    /\ git_count = 1 /\ success_count = 2
    /\ fail_count = 0 /\ skip_count = 0
    /\ Cardinality({k \in Downloads : log[k].ret = "True"}) = 1

-----------------------------------------------------------------------------
(* Properties of get_copr_release_number, checked under SpecCopr *)

\* The spec file was fetched: the query produced text, and the urllib branch
\* did not take it for the bot-protection page.
Fetched(remote) ==
    /\ remote.kind = "text"
    /\ remote.curl \/ remote.text = <<>> \/ remote.text[1] # "<html"

\* C5: get_copr_release_number never raises and returns an integer >= 1:
\* the parsed release plus one when the spec file was fetched, Version and
\* Release were both parsed and the parsed version is the requested one, and
\* 1 in every other case.
C5_ReleaseNumberTotal ==
    cpc = "returned" =>
      LET version_match == SearchField(cremote.text, 1, KV, NotSpace)
          release_match == SearchField(cremote.text, 1, KR, Digit)
      IN  /\ ~cresult.raised
          /\ cresult.value \in Nat /\ cresult.value >= 1
          /\ cresult.value =
               IF /\ Fetched(cremote)
                  /\ version_match.found /\ release_match.found
                  /\ version_match.group = cversion
               THEN ToInt(release_match.group) + 1
               ELSE 1

\* The three cases of the release: same version (release 2 becomes 3), another
\* version, and a failed fetch.
C5_Witness ==
    /\ cpc = "returned"
    /\ cremote.kind = "text"
    /\ cremote.text = <<KV, " ", "1", "2", NL, KR, " ", "2", NL>>
    /\ cversion = <<"1", "2">>
    /\ cresult = Returned(3)

-----------------------------------------------------------------------------
(* Properties of update_spec_file, checked under SpecUpdate *)

\* The updater returns True exactly when it wrote changed content, and from
\* the second application on it writes nothing and returns False.
WritesOnlyOnce ==
    \A k \in 1..Len(ulog) :
      /\ ulog[k].ret <=> (ulog[k].wrote /\ ulog[k].after # ulog[k].before)
      /\ k >= 2 => /\ ~ulog[k].wrote /\ ~ulog[k].ret
                   /\ ulog[k].after = ulog[k].before

\* The string has a character that is not whitespace.
HasNonSpace(str) == \E k \in 1..Len(str) : str[k] \in NotSpace

\* C10 as stated: for any spec file content and any fixed arguments, the
\* updater writes at most on the first application, and returns True exactly
\* when it wrote changed content.
C10_IdempotentForAnyInputs == WritesOnlyOnce

\* Supporting C10: the same holds for a version that has a character that is not
\* whitespace.
C10_IdempotentForVisibleVersion ==
    HasNonSpace(uargs.version) => WritesOnlyOnce

\* The first application rewrote the file, the second found nothing to do.
C10_Witness ==
    /\ HasNonSpace(uargs.version)
    /\ Len(ulog) = 2
    /\ ulog[1].wrote /\ ulog[1].ret
    /\ ~ulog[2].wrote /\ ~ulog[2].ret

\* text.split('\n'): the lines of a text, the piece after the last line
\* break included.
RECURSIVE SplitLines(_, _)
SplitLines(text, line) ==
    IF text = <<>> THEN <<line>>
    ELSE IF Head(text) = NL
    THEN <<line>> \o SplitLines(Tail(text), <<>>)
    ELSE SplitLines(Tail(text), Append(line, Head(text)))

\* The line is a declaration of the keyword.
Declares(line, keyword) == line # <<>> /\ line[1] = keyword

\* One application changed nothing but the declaration lines it was given a
\* value for, and added no declaration.
OnlyTargetedLines(before, after, a) ==
    LET b == SplitLines(before, <<>>)
        c == SplitLines(after, <<>>)
    IN  /\ Len(c) = Len(b)
        /\ \A i \in 1..Len(b) :
             /\ (\A kw \in {KV, KR, KT, KE} : ~Declares(b[i], kw))
                  => c[i] = b[i]
             /\ (Declares(b[i], KR) /\ a.release = <<>>) => c[i] = b[i]
             /\ (Declares(b[i], KT) /\ a.theia_version = <<>>) => c[i] = b[i]
             /\ (Declares(b[i], KE) /\ a.electron_version = <<>>)
                  => c[i] = b[i]
        /\ \A kw \in {KV, KR, KT, KE} :
             (\A i \in 1..Len(b) : ~Declares(b[i], kw))
               => (\A i \in 1..Len(c) : ~Declares(c[i], kw))

\* C11: update_spec_file changes only the targeted declaration lines: every
\* other line is kept, the number of lines is kept, the Release line and the
\* two %global lines are rewritten only when their value is supplied, and no
\* declaration is added.
C11_OnlyTargetedLinesChange ==
    \A k \in 1..Len(ulog) :
        OnlyTargetedLines(ulog[k].before, ulog[k].after, uargs)

\* The value of a declaration line: what follows the keyword.
ValueOf(line) == SubSeq(line, 2, Len(line))

\* Supporting C11: the same holds for a file in which every targeted
\* declaration carries a value on its own line.
C11_HoldsWhenValuesPresent ==
    \A k \in 1..Len(ulog) :
        (\A l \in {SplitLines(ulog[k].before, <<>>)[i] :
                     i \in 1..Len(SplitLines(ulog[k].before, <<>>))} :
            \A kw \in {KV, KR, KT, KE} :
               Declares(l, kw) => HasNonSpace(ValueOf(l)))
        => OnlyTargetedLines(ulog[k].before, ulog[k].after, uargs)

-----------------------------------------------------------------------------
(* Properties of the driver, checked under SpecMain *)

\* What a step met is one of the fatal conditions: the version cannot be
\* resolved, the clone fails, the dependency lister is missing and cannot be
\* installed, the lister fails, the dependency pass reports failure, or an
\* exception reaches the handler at the bottom of the script.
FatalEvent(e) ==
    \/ e.step = "version" /\ e.outcome \in {"github_failed", "local_failed"}
    \/ e.step = "main" /\ e.outcome = "clone_failed"
    \/ e.step = "tool"
       /\ e.outcome \in {"no_pipx", "install_failed", "still_missing"}
    \/ e.step = "lister" /\ e.outcome = "failed"
    \/ e.step = "pass" /\ e.outcome = "failed"
    \/ e.step = "plugins" /\ e.outcome = "exception"

FatalAt == {k \in 1..Len(trace) : FatalEvent(trace[k])}

Happened(step, outcome) ==
    \E k \in 1..Len(trace) : trace[k] = Event(step, outcome)

\* The tarballs, the manifest and the spec file the steps of the trace wrote.
Produced ==
    (IF Happened("main", "cloned") THEN {"main_tarball"} ELSE {})
    \cup (IF Happened("plugins", "done") THEN {"plugins_tarball"} ELSE {})
    \cup (IF Happened("pass", "ok") THEN {"deps_tarball", "deps_json"} ELSE {})
    \cup (IF Happened("copy", "copied") THEN {"spec"} ELSE {})

\* C2: a fatal condition is followed by no step of the driver but the removal
\* of the temporary directory, nothing is written beyond what the steps
\* before it wrote, and the run exits with a non-zero status; a run with no
\* fatal condition exits with status 0.
C2_FatalConditionEndsRun ==
    /\ \A k \in FatalAt :
         \A j \in (k + 1)..Len(trace) : trace[j].step = "cleanup"
    /\ outputs \ {"patches"} = Produced
    /\ \A k \in FatalAt :
         ~\E j \in 1..Len(trace) :
            trace[j].step \in {"update", "copy", "summary"}
    /\ mpc = "exited" => /\ exit_code \in {0, 1}
                         /\ exit_code # 0 <=> FatalAt # {}
    /\ mpc # "exited" => exit_code = -1

\* The dependency pass failed after the plugins tarball was written: no
\* dependency tarball, exit status 1.
C2_Witness ==
    /\ mpc = "exited" /\ exit_code = 1
    /\ Happened("pass", "failed")
    /\ Happened("plugins", "done")
    /\ "plugins_tarball" \in outputs
    /\ "deps_tarball" \notin outputs
    /\ workdir = "removed"

AnyOnly(a) == a.only_main_source \/ a.only_plugins \/ a.only_deps

\* The generation steps selected, once the flags are computed.
Selected ==
    (IF gen_main THEN {"main"} ELSE {})
    \cup (IF gen_plugins THEN {"plugins"} ELSE {})
    \cup (IF gen_deps THEN {"deps"} ELSE {})

\* The generation steps the run entered.
Ran ==
    {s \in {"main", "plugins", "deps"} :
       \E k \in 1..Len(trace) :
          trace[k].step = (IF s = "deps" THEN "tool" ELSE s)}

\* Exactly one generation mode: with an --only-* switch exactly one step is
\* selected, one whose --only-* switch is set, whatever the --skip-* switches
\* say; without, a step is selected iff its --skip-* switch is absent.  Only
\* selected steps run, and a run that completes has run all of them.
OneGenerationMode ==
    /\ Happened("tempdir", "created") =>
         IF AnyOnly(margs)
         THEN /\ Cardinality(Selected) = 1
              /\ "main" \in Selected => margs.only_main_source
              /\ "plugins" \in Selected => margs.only_plugins
              /\ "deps" \in Selected => margs.only_deps
         ELSE /\ "main" \in Selected <=> ~margs.skip_main_source
              /\ "plugins" \in Selected <=> ~margs.skip_plugins
              /\ "deps" \in Selected <=> ~margs.skip_deps
    /\ Ran \subseteq Selected
    /\ exit_code = 0 => Ran = Selected

OnlyPluginsTarball ==
    /\ "plugins_tarball" \in outputs
    /\ "main_tarball" \notin outputs
    /\ "deps_tarball" \notin outputs

\* C3 as stated: one generation mode, and a completed run with --only-plugins
\* writes the plugins tarball and neither of the other two.
C3_OnlyPluginsAlways ==
    /\ OneGenerationMode
    /\ (exit_code = 0 /\ margs.only_plugins) => OnlyPluginsTarball

\* C3, corrected: one generation mode, with an --only-* switch the first set
\* in the order main source, plugins, deps, and a completed run with
\* --only-plugins and without --only-main-source writes the plugins tarball
\* and neither of the other two.
C3_OneGenerationMode ==
    /\ OneGenerationMode
    /\ (Happened("tempdir", "created") /\ AnyOnly(margs)) =>
         Selected = {IF margs.only_main_source THEN "main"
                     ELSE IF margs.only_plugins THEN "plugins" ELSE "deps"}
    /\ (exit_code = 0 /\ margs.only_plugins /\ ~margs.only_main_source)
         => OnlyPluginsTarball

\* --only-plugins together with --skip-plugins: the plugins tarball alone.
C3_Witness ==
    /\ exit_code = 0
    /\ margs.only_plugins /\ margs.skip_plugins /\ margs.only_deps
    /\ ~margs.only_main_source
    /\ outputs = {"plugins_tarball"}

\* The versions given on the command line.
Explicit == {margs.version_opt, margs.version} \ {NoString}

\* The name of the first tag the endpoint reported, if any.
FirstTag ==
    IF github.kind = "json" /\ Len(github.data) > 0
    THEN Get(github.data[1], "name", NoString)
    ELSE NoString

\* The run ended at the version step with a non-zero status.
VersionFailed ==
    /\ mpc = "exited" /\ exit_code # 0
    /\ Len(trace) = 1 /\ trace[1].step = "version"

\* The tag without its 'v' prefix.
RemovePrefix(tag) ==
    IF tag # <<>> /\ Head(tag) = "v" THEN Tail(tag) ELSE tag

\* The tag without any of its leading 'v's.
RemoveLeading(tag) == lstrip(tag, {"v"})

\* The resolution order: the explicit version; else with --github-latest the
\* stripped name of the first tag, and no fallback; else the version of the
\* local manifest.
ResolutionOrder(Strip(_)) ==
    mpc # "version" =>
      IF Explicit # {}
      THEN mversion \in Explicit /\ ~VersionFailed
      ELSE IF margs.github_latest
      THEN IF Strip(FirstTag) = NoString
           THEN VersionFailed
           ELSE mversion = Strip(FirstTag) /\ ~VersionFailed
      ELSE IF project_root.package_json.version = NoString
           THEN VersionFailed
           ELSE mversion = project_root.package_json.version /\ ~VersionFailed

\* C4 as stated: the version is resolved in the order explicit, first remote
\* tag with its leading 'v' stripped (failing without fallback), local
\* manifest (failing when it has no version).
C4_VersionResolutionOrder == ResolutionOrder(RemovePrefix)

\* Supporting C4: the order holds when every leading 'v' of the tag is taken
\* off, which is what the code does.
C4_OrderWithAllLeadingRemoved == ResolutionOrder(RemoveLeading)

\* C12: the temporary directory exists in no terminal state: it is removed
\* when the generation phase completes, when it is left by sys.exit and when
\* it is left by an exception; the removal takes nothing from the output
\* directory and leaves the spec files as they are.
C12_WorkdirRemoved ==
    /\ [](mpc = "exited" => workdir # "exists")
    /\ []((mpc = "exited" /\ Happened("tempdir", "created"))
            => (workdir = "removed" /\ Happened("cleanup", "removed")))
    /\ [][(workdir = "exists" /\ workdir' = "removed")
            => UNCHANGED <<outputs, plugins_tarball, copied_spec, spec_file>>]_vars

\* An exception in the plugin step after the main source tarball was
\* written: the directory is gone, the tarball is still there.
C12_Witness ==
    /\ mpc = "exited"
    /\ Happened("plugins", "exception")
    /\ pending = "Exception"
    /\ workdir = "removed"
    /\ "main_tarball" \in outputs

\* The built-in extension items the plugin step downloads.
Eligible(items) ==
    SelectSeq(items, LAMBDA item : /\ Get(item, "type", None) = "file"
                                   /\ Get(item, "dest", None) = "plugins")

\* The file names of all entries of the two manifests of a tree, in the
\* order of the step.
RECURSIVE FileNames(_)
FileNames(items) ==
    IF items = <<>> THEN <<>>
    ELSE <<Get(Head(items), "dest_filename", None)>> \o FileNames(Tail(items))

PluginEntries(tree) ==
    tree.package_json.theiaPlugins
    \o FileNames(Eligible(tree.extension_sources.items))

\* The manifests themselves make the step raise: package.json cannot be
\* read, or an extension item to download lacks its url or dest-filename.
ManifestsUnusable(tree) ==
    \/ tree.package_json.kind # "json"
    \/ \E k \in 1..Len(tree.extension_sources.items) :
         LET item == tree.extension_sources.items[k]
         IN  /\ Get(item, "type", None) = "file"
             /\ Get(item, "dest", None) = "plugins"
             /\ ("url" \notin DOMAIN item \/ "dest_filename" \notin DOMAIN item)

\* C13: a failed download of the plugin step is a warning only: whatever the
\* downloads do, every entry of both manifests is attempted, in order; the
\* plugins tarball is written and holds the files whose download succeeded;
\* the step raises only for manifests it cannot use, never for a failed
\* download; and a run whose only failures are such downloads goes on and
\* exits with status 0.
C13_PluginFailuresAreWarnings ==
    /\ Happened("plugins", "done") =>
         /\ Len(plugin_log) = Len(PluginEntries(src_dir))
         /\ \A k \in 1..Len(plugin_log) :
               plugin_log[k].name = PluginEntries(src_dir)[k]
         /\ "plugins_tarball" \in outputs
         /\ plugins_tarball =
              {<<plugin_log[k].name>> : k \in {j \in 1..Len(plugin_log) :
                                                  plugin_log[j].ret}}
         /\ mpc \notin {"plugins"}
         /\ \A k \in FatalAt : trace[k].step # "plugins"
    /\ Happened("plugins", "exception") => ManifestsUnusable(src_dir)
    /\ (Happened("plugins", "done") /\ ~ManifestsUnusable(src_dir)
        /\ mpc = "exited" /\ FatalAt = {}) => exit_code = 0
    /\ (Happened("plugins", "done") /\ pending # "none") => FatalAt # {}

\* A download of the first manifest failed, one of the second succeeded,
\* the tarball holds that file and the run completed with status 0.
C13_Witness ==
    /\ mpc = "exited" /\ exit_code = 0
    /\ Happened("plugins", "done")
    /\ Len(plugin_log) = 3
    /\ ~plugin_log[1].ret /\ plugin_log[2].ret /\ ~plugin_log[3].ret
    /\ plugins_tarball = {<<"f2">>}
    /\ "plugins_tarball" \in outputs

\* The place of a step in the order of the driver.
Rank(step) ==
    CASE step = "version" -> 1
      [] step = "release" -> 2
      [] step = "tempdir" -> 3
      [] step = "main"    -> 4
      [] step = "plugins" -> 5
      [] step = "tool"    -> 6
      [] step = "lister"  -> 7
      [] step = "pass"    -> 8
      [] step = "update"  -> 9
      [] step = "copy"    -> 10
      [] step = "cleanup" -> 11
      [] step = "summary" -> 12

Reached(step) == \E k \in 1..Len(trace) : trace[k].step = step

\* C14: the steps of a run occur in the fixed order version, release (COPR
\* only), temporary directory, main source, plugins, dependencies, spec
\* update, copy (COPR only), summary, each at most once; the release is
\* resolved before any clone or download, and the summary is printed only
\* after the temporary directory was removed.
C14_FixedStepOrder ==
    /\ \A j, k \in 1..Len(trace) :
         j < k => Rank(trace[j].step) < Rank(trace[k].step)
    /\ Reached("release") => margs.copr
    /\ Reached("copy") => margs.copr
    /\ (margs.copr /\ Reached("tempdir")) => Reached("release")
    /\ (Reached("main") \/ Reached("plugins") \/ Reached("tool"))
         => /\ Reached("version") /\ Reached("tempdir")
            /\ margs.copr => Reached("release")
    /\ Reached("summary") => /\ workdir = "removed"
                             /\ Reached("cleanup")
                             /\ trace[Len(trace)].step = "summary"
    /\ (Reached("version") /\ Len(trace) >= 1) => trace[1].step = "version"
    /\ exit_code = 0 =>
         /\ gen_main <=> Reached("main")
         /\ gen_plugins <=> Reached("plugins")
         /\ gen_deps <=> (Reached("tool") /\ Reached("lister") /\ Reached("pass"))
         /\ margs.copr <=> Reached("copy")
         /\ Reached("update") => ~margs.no_update_spec

\* A COPR run that takes every step.
C14_Witness ==
    /\ exit_code = 0
    /\ [k \in 1..Len(trace) |-> trace[k].step] =
         <<"version", "release", "tempdir", "main", "plugins", "tool",
           "lister", "pass", "update", "copy", "cleanup", "summary">>

\* The value the text declares for the keyword, as rpm reads it: the first
\* line that starts with the keyword and carries a value.
Declared_Version(text) == SearchField(text, 1, KV, NotSpace)

Declared_Release(text) == SearchField(text, 1, KR, Digit)

UpdateEnabled ==
    margs.copr /\ ~margs.no_update_spec /\ spec_file.exists

\* C18: in COPR mode with spec updating enabled and theia-ide.spec beside the
\* script, the update is made before the copy, the copy in the output
\* directory is identical to the file the update left, with the resolved
\* version and release in its declarations, and the copy step leaves the
\* source spec file as it is.
C18_CopiedSpecIsUpdatedSpec ==
    /\ []((UpdateEnabled /\ Reached("copy")) =>
            /\ Happened("copy", "copied")
            /\ Reached("update")
            /\ \A j, k \in 1..Len(trace) :
                 (trace[j].step = "update" /\ trace[k].step = "copy") => j < k
            /\ copied_spec = spec_file
            /\ "spec" \in outputs
            /\ Declared_Version(copied_spec.text).found =>
                 Declared_Version(copied_spec.text).group = mversion
            /\ Declared_Release(copied_spec.text).found =>
                 Declared_Release(copied_spec.text).group = Str(mrelease[1]))
    /\ [][mpc = "copy" => spec_file' = spec_file]_vars

\* A COPR run for the version dist-git already has at release 2: the copy
\* declares that version and release 3.
C18_Witness ==
    /\ exit_code = 0 /\ UpdateEnabled
    /\ Happened("update", "updated") /\ Happened("copy", "copied")
    /\ mrelease = <<3>>
    /\ copied_spec = spec_file
    /\ Declared_Version(copied_spec.text) = Match(mversion)
    /\ Declared_Release(copied_spec.text) = Match(<<"3">>)

=============================================================================
